---------------------------- MODULE Spec2Model ----------------------------
(***************************************************************************)
(* llm-router: the strike tracker (llm_router/tracker.py) and the cascade  *)
(* router (llm_router/router.py) as a state machine.                       *)
(*                                                                         *)
(* Time is an integer number of seconds since 2000-01-01T00:00:00 UTC.     *)
(* A persisted timestamp (datetime.isoformat()) is the tuple of its civil  *)
(* fields <<year, month, day, hour, minute, second>>; isoformat and        *)
(* fromisoformat are the two calendar conversions, computed the way        *)
(* Python's datetime computes them (proleptic Gregorian ordinals).         *)
(* An optional value (None or a value) is the empty or the one-element     *)
(* sequence.                                                               *)
(*                                                                         *)
(* An operation of the tracker is a function that gives, besides what the  *)
(* operation returns and the mapping and the file it leaves, the exception *)
(* that leaves it ("none" when it returns); the state file carries whether *)
(* it can be read and written and what shape its content has.              *)
(***************************************************************************)
EXTENDS Integers, Sequences, FiniteSets, TLC

VARIABLES
    now,        \* the UTC clock read by datetime.now(timezone.utc)
    stateFile,  \* per tracker: TRUE when it was built with the state file
    strikes,    \* per tracker: provider id -> strike record (self.strikes)
    store,      \* the state file shared by the trackers
    ret,        \* the last direct operation and what it returned or raised
    env,        \* providers whose env_key is set in os.environ
    clients,    \* providers with a cached client (self._clients)
    pc,         \* position of the router's call(): "idle" or "invoking"
    profile,    \* the profile name of the call in progress
    idx,        \* index in the profile of the candidate being invoked
    attempts,   \* the attempts list of the call in progress
    invoked,    \* profile indices handed to _call_provider by this call
    outcome,    \* how the last call() ended
    sweep,      \* tracker mapping right after the call's clear_expired()
    ticks,      \* clock advances so far
    ops,        \* direct tracker operations so far
    calls       \* router calls started so far

vars == <<now, stateFile, strikes, store, ret, env, clients, pc, profile,
          idx, attempts, invoked, outcome, sweep, ticks, ops, calls>>

trackerVars == <<stateFile, strikes, store, ret>>
routerVars == <<env, clients, pc, profile, idx, attempts, invoked, outcome, sweep>>

-----------------------------------------------------------------------------
(* Bounds of the model *)

MaxTicks == 2
MaxOps == 2
MaxCalls == 2

None == <<>>
Some(x) == <<x>>

-----------------------------------------------------------------------------
(* Calendar arithmetic of datetime (proleptic Gregorian) *)

SecondsPerDay == 24 * 60 * 60

IsLeap(y) == y % 4 = 0 /\ (y % 100 # 0 \/ y % 400 = 0)

\* _DAYS_IN_MONTH and _DAYS_BEFORE_MONTH of a common year
DaysInMonthTable == <<31, 28, 31, 30, 31, 30, 31, 31, 30, 31, 30, 31>>
DaysBeforeMonthTable == <<0, 31, 59, 90, 120, 151, 181, 212, 243, 273, 304, 334>>

DaysInMonth(y, m) ==
    IF m = 2 /\ IsLeap(y) THEN 29 ELSE DaysInMonthTable[m]

DaysBeforeMonth(y, m) ==
    DaysBeforeMonthTable[m] + (IF m > 2 /\ IsLeap(y) THEN 1 ELSE 0)

DaysBeforeYear(year) ==
    LET y == year - 1
    IN  y * 365 + y \div 4 - y \div 100 + y \div 400

\* _ymd2ord: the ordinal of a date, 0001-01-01 being day 1
YmdToOrd(y, m, d) == DaysBeforeYear(y) + DaysBeforeMonth(y, m) + d

\* _ord2ymd: ordinal -> <<year, month, day>>
OrdToYmd(n) ==
    LET n0 == n - 1
        n400 == n0 \div 146097
        r400 == n0 % 146097
        n100 == r400 \div 36524
        r100 == r400 % 36524
        n4 == r100 \div 1461
        r4 == r100 % 1461
        n1 == r4 \div 365
        r1 == r4 % 365
        year == n400 * 400 + 1 + n100 * 100 + n4 * 4 + n1
        guess == (r1 + 50) \div 32
        month == IF DaysBeforeMonth(year, guess) > r1 THEN guess - 1 ELSE guess
    IN  IF n1 = 4 \/ n100 = 4 THEN <<year - 1, 12, 31>>
        ELSE <<year, month, r1 - DaysBeforeMonth(year, month) + 1>>

EpochOrdinal == YmdToOrd(2000, 1, 1)

\* datetime(y, m, d, hh, mm, ss, tzinfo=utc) as seconds since the epoch
Datetime(y, m, d, hh, mm, ss) ==
    (YmdToOrd(y, m, d) - EpochOrdinal) * SecondsPerDay + hh * 3600 + mm * 60 + ss

\* <<year, month, day>> of a datetime: now.date(), now.year, now.month
DateOf(t) == OrdToYmd(EpochOrdinal + t \div SecondsPerDay)

\* datetime.isoformat(): the civil fields of the instant
IsoFormat(t) ==
    LET ymd == DateOf(t)
        s == t % SecondsPerDay
    IN  <<ymd[1], ymd[2], ymd[3], s \div 3600, (s % 3600) \div 60, s % 60>>

\* datetime.fromisoformat(): the instant of the civil fields
FromIsoFormat(iso) == Datetime(iso[1], iso[2], iso[3], iso[4], iso[5], iso[6])


-----------------------------------------------------------------------------
(* Configuration: providers.yml / profiles.yml as the router holds them *)

Providers == {"a", "b"}

\* provider config "rate_limit": {"renewal": ...}; "b" has no rate_limit section
RateLimit(pid) == IF pid = "a" THEN Some("daily") ELSE None

\* provider config "name" (the identifier when the provider has none),
\* "default_model" and "sdk" (openai when the provider names none)
ProviderName(pid) == IF pid = "a" THEN "Alpha" ELSE pid
DefaultModel(pid) == IF pid = "a" THEN "alpha-1" ELSE "beta-1"
Sdk(pid) == IF pid = "a" THEN "anthropic" ELSE "openai"

Trackers == {"router", "other"}

-----------------------------------------------------------------------------
(* StrikeTracker *)

EmptyMap == [p \in {} |-> None]

Without(m, p) == [q \in DOMAIN m \ {p} |-> m[q]]

Put(m, p, rec) == [q \in DOMAIN m \cup {p} |-> IF q = p THEN rec ELSE m[q]]

\* dict.get(key): the value of the key, None when the dict lacks it
Get(rec, key) == IF key \in DOMAIN rec THEN rec[key] ELSE None

\* no exception left the operation
NoError == "none"

\* The state file as the file system holds it: whether it exists, whether
\* read_text and write_text are permitted on it, and its content. The
\* content is a JSON object (with or without a "strikes" field), JSON of
\* another shape (a list), or text that is no JSON.
ObjectDoc(m) == [kind |-> "object", hasStrikes |-> TRUE, strikes |-> m]

NoFile == [exists |-> FALSE, readable |-> TRUE, writable |-> TRUE,
           doc |-> ObjectDoc(EmptyMap)]

\* _load: the mapping the constructor ends with and the exception that
\* leaves it; only JSONDecodeError and KeyError are caught
Load(hasFile, st) ==
    IF ~(hasFile /\ st.exists)
    THEN [strikes |-> EmptyMap, raised |-> NoError]
    ELSE IF ~st.readable
         THEN [strikes |-> EmptyMap, raised |-> "PermissionError"]
         ELSE IF st.doc.kind = "invalid"
              THEN [strikes |-> EmptyMap, raised |-> NoError]
              ELSE IF st.doc.kind # "object"
                   THEN [strikes |-> EmptyMap, raised |-> "AttributeError"]
                   ELSE [strikes |-> IF st.doc.hasStrikes THEN st.doc.strikes
                                     ELSE EmptyMap,
                         raised |-> NoError]

\* _save raises: write_text (or mkdir) is refused and nothing catches it
SaveRaises(hasFile, st) == hasFile /\ ~st.writable

\* mutant of Save: the file is written once and never rewritten
SaveOnce(hasFile, m, st) ==
    IF hasFile /\ st.writable /\ ~st.exists
    THEN [st EXCEPT !.exists = TRUE, !.doc = ObjectDoc(m)]
    ELSE st

\* _save: the whole mapping replaces the file's content; a refused write
\* leaves the file as it was
Save(hasFile, m, st) ==
    IF hasFile /\ st.writable
    THEN [st EXCEPT !.exists = TRUE, !.doc = ObjectDoc(m)]
    ELSE st

\* datetime.fromisoformat accepts the text: it has the six civil fields of
\* an instant, each in its range
IsIsoFormat(iso) ==
    /\ Len(iso) = 6
    /\ iso[1] \in 1..9999
    /\ iso[2] \in 1..12
    /\ iso[3] \in 1..DaysInMonth(iso[1], iso[2])
    /\ iso[4] \in 0..23
    /\ iso[5] \in 0..59
    /\ iso[6] \in 0..59

\* the record's renews_at is truthy and fromisoformat raises ValueError on it
Unparsable(rec) ==
    Get(rec, "renews_at") # None /\ ~IsIsoFormat(Get(rec, "renews_at"))

\* mutant of StrikeExpired: the very second of the renewal still blocks
StrikeExpiredLate(rec, t) ==
    Get(rec, "renews_at") # None /\ t > FromIsoFormat(Get(rec, "renews_at"))

\* is_available lines 55-59: the record's renews_at is truthy and has passed
StrikeExpired(rec, t) ==
    Get(rec, "renews_at") # None /\ t >= FromIsoFormat(Get(rec, "renews_at"))

\* mutant of IsAvailable: a strike never blocks
IsAvailableAlways(hasFile, m, st, pid, t) ==
    [avail |-> TRUE, strikes |-> m, store |-> st, raised |-> NoError]

\* is_available as a function: the answer, the mapping and the file after
\* it, and the exception that leaves it (then there is no answer)
IsAvailable(hasFile, m, st, pid, t) ==
    IF pid \notin DOMAIN m
    THEN [avail |-> TRUE, strikes |-> m, store |-> st, raised |-> NoError]
    ELSE IF Unparsable(m[pid])
         THEN [avail |-> FALSE, strikes |-> m, store |-> st,
               raised |-> "ValueError"]
         ELSE IF StrikeExpired(m[pid], t)
              THEN [avail |-> ~SaveRaises(hasFile, st),
                    strikes |-> Without(m, pid),
                    store |-> Save(hasFile, Without(m, pid), st),
                    raised |-> IF SaveRaises(hasFile, st) THEN "OSError"
                               ELSE NoError]
              ELSE [avail |-> FALSE, strikes |-> m, store |-> st,
                    raised |-> NoError]

\* the default cooldown of a rolling strike, in seconds
RollingCooldown == 60

\* mutant of RenewsAt: daily renews at the midnight at or after the strike
RenewsAtDailyCeiling(t, policy, retry) ==
    IF retry # None /\ retry[1] # 0
    THEN t + retry[1]
    ELSE IF policy = "daily"
         THEN ((t + SecondsPerDay - 1) \div SecondsPerDay) * SecondsPerDay
         ELSE IF policy = "monthly"
              THEN LET d == DateOf(t)
                   IN  IF d[2] = 12
                       THEN Datetime(d[1] + 1, 1, 1, 0, 0, 0)
                       ELSE Datetime(d[1], d[2] + 1, 1, 0, 0, 0)
              ELSE t + RollingCooldown

\* mutant of RenewsAt: monthly keeps the year when the month wraps around
RenewsAtMonthlySameYear(t, policy, retry) ==
    IF retry # None /\ retry[1] # 0
    THEN t + retry[1]
    ELSE IF policy = "daily"
         THEN LET tomorrow == OrdToYmd(EpochOrdinal + t \div SecondsPerDay + 1)
              IN  Datetime(tomorrow[1], tomorrow[2], tomorrow[3], 0, 0, 0)
         ELSE IF policy = "monthly"
              THEN LET d == DateOf(t)
                   IN  Datetime(d[1], (d[2] % 12) + 1, 1, 0, 0, 0)
              ELSE t + RollingCooldown

\* strike lines 85-101: when the strike renews
RenewsAt(t, policy, retry) ==
    IF retry # None /\ retry[1] # 0
    THEN t + retry[1]
    ELSE IF policy = "daily"
         THEN LET tomorrow == OrdToYmd(EpochOrdinal + t \div SecondsPerDay + 1)
              IN  Datetime(tomorrow[1], tomorrow[2], tomorrow[3], 0, 0, 0)
         ELSE IF policy = "monthly"
              THEN LET d == DateOf(t)
                   IN  IF d[2] = 12
                       THEN Datetime(d[1] + 1, 1, 1, 0, 0, 0)
                       ELSE Datetime(d[1], d[2] + 1, 1, 0, 0, 0)
              ELSE t + RollingCooldown

\* strike lines 103-107: the record written for the provider
StrikeRecord(t, reason, policy, retry) ==
    [struck_at |-> IsoFormat(t),
     reason |-> reason,
     renews_at |-> IsoFormat(RenewsAt(t, policy, retry))]

\* strike as a function: the mapping and the file after it, and the
\* exception that leaves it; the record is in the mapping before _save runs
Strike(hasFile, m, st, pid, reason, policy, retry, t) ==
    LET m2 == Put(m, pid, StrikeRecord(t, reason, policy, retry))
    IN  [strikes |-> m2,
         store |-> Save(hasFile, m2, st),
         raised |-> IF SaveRaises(hasFile, st) THEN "OSError" ELSE NoError]

\* mutant of SweepExpired: the very second of the renewal is not swept
SweepExpiredLate(rec, t) ==
    Get(rec, "renews_at") # None /\ t > FromIsoFormat(Get(rec, "renews_at"))

\* clear_expired lines 114-118: the record is collected as expired
SweepExpired(rec, t) ==
    Get(rec, "renews_at") # None /\ t >= FromIsoFormat(Get(rec, "renews_at"))

\* mutant of ClearExpired: the records are deleted and the file is left
ClearExpiredNoSave(hasFile, m, st, t) ==
    LET expired == {p \in DOMAIN m : SweepExpired(m[p], t)}
    IN  [cleared |-> expired,
         strikes |-> [q \in DOMAIN m \ expired |-> m[q]],
         store |-> st,
         raised |-> NoError]

\* clear_expired as a function: the ids returned, the mapping and the file,
\* and the exception that leaves it. fromisoformat raises in the collecting
\* loop, before anything is deleted; _save raises after the deletions.
ClearExpired(hasFile, m, st, t) ==
    IF \E p \in DOMAIN m : Unparsable(m[p])
    THEN [cleared |-> {}, strikes |-> m, store |-> st, raised |-> "ValueError"]
    ELSE LET expired == {p \in DOMAIN m : SweepExpired(m[p], t)}
             m2 == [q \in DOMAIN m \ expired |-> m[q]]
         IN  [cleared |-> expired,
              strikes |-> m2,
              store |-> IF expired # {} THEN Save(hasFile, m2, st) ELSE st,
              raised |-> IF expired # {} /\ SaveRaises(hasFile, st)
                         THEN "OSError" ELSE NoError]

\* mutant of GetStatus: the answer is given without the sweep
GetStatusNoSweep(hasFile, m, st, t) ==
    [active |-> Cardinality(DOMAIN m), snapshot |-> m, strikes |-> m,
     store |-> st, raised |-> NoError]

\* get_status as a function: clear_expired, then the count and the snapshot
GetStatus(hasFile, m, st, t) ==
    LET r == ClearExpired(hasFile, m, st, t)
    IN  [active |-> Cardinality(DOMAIN r.strikes),
         snapshot |-> r.strikes,
         strikes |-> r.strikes,
         store |-> r.store,
         raised |-> r.raised]

\* what the last direct operation was and what it returned or raised
NoRet == [op |-> "none", tracker |-> "router", provider |-> "a",
          policy |-> "rolling", retry |-> None,
          avail |-> TRUE, cleared |-> {}, active |-> 0, snapshot |-> EmptyMap,
          profile |-> "", listing |-> <<>>, error |-> <<>>,
          rate_limited |-> FALSE, raised |-> NoError, at |-> 0]

-----------------------------------------------------------------------------
(* The clock *)

\* every renews_at, of those that parse, held by a tracker or by the file
Renewals ==
    LET maps == {strikes[t] : t \in Trackers} \cup {store.doc.strikes}
        Timed(m) == {p \in DOMAIN m : Get(m[p], "renews_at") # None
                                       /\ ~Unparsable(m[p])}
    IN  UNION {{FromIsoFormat(m[p].renews_at) : p \in Timed(m)} : m \in maps}

\* the instants the clock may next show: the last second before, and the
\* very second of, the nearest pending renewal; the next second when no
\* renewal is pending
TickTargets ==
    LET pending == {r \in Renewals : r > now}
        nearest == CHOOSE r \in pending : \A q \in pending : r <= q
    IN  IF pending = {} THEN {now + 1}
        ELSE {t \in {nearest - 1, nearest} : t > now}

\* time passes between two reads of datetime.now(timezone.utc)
Tick ==
    /\ ticks < MaxTicks
    /\ \E t \in TickTargets : now' = t
    /\ ticks' = ticks + 1
    /\ UNCHANGED <<trackerVars, routerVars, ops, calls>>

-----------------------------------------------------------------------------
(* The tracker's operations, called directly *)

\* arguments of a direct strike(): <<renewal_policy, retry_after_seconds>>
StrikeArgs == {<<"rolling", Some(30)>>, <<"rolling", None>>, <<"daily", None>>}

\* StrikeTracker(state_file): a fresh instance replaces tracker t; when the
\* constructor raises there is no fresh instance and t stays as it was
Construct(t) ==
    LET r == Load(stateFile[t], store)
    IN  /\ ops < MaxOps
        /\ ops' = ops + 1
        /\ strikes' = IF r.raised = NoError
                      THEN [strikes EXCEPT ![t] = r.strikes]
                      ELSE strikes
        /\ ret' = [NoRet EXCEPT !.op = "construct", !.tracker = t,
                                !.raised = r.raised, !.at = now]
        /\ UNCHANGED <<now, stateFile, store, routerVars, ticks, calls>>

TrackerIsAvailable(t, pid) ==
    LET r == IsAvailable(stateFile[t], strikes[t], store, pid, now)
    IN  /\ ops < MaxOps
        /\ ops' = ops + 1
        /\ strikes' = [strikes EXCEPT ![t] = r.strikes]
        /\ store' = r.store
        /\ ret' = [NoRet EXCEPT !.op = "is_available", !.tracker = t,
                                !.provider = pid, !.avail = r.avail,
                                !.raised = r.raised, !.at = now]
        /\ UNCHANGED <<now, stateFile, routerVars, ticks, calls>>

TrackerStrike(t, pid, policy, retry) ==
    LET r == Strike(stateFile[t], strikes[t], store, pid, "manual", policy, retry, now)
    IN  /\ ops < MaxOps
        /\ ops' = ops + 1
        /\ strikes' = [strikes EXCEPT ![t] = r.strikes]
        /\ store' = r.store
        /\ ret' = [NoRet EXCEPT !.op = "strike", !.tracker = t, !.provider = pid,
                                !.policy = policy, !.retry = retry,
                                !.raised = r.raised, !.at = now]
        /\ UNCHANGED <<now, stateFile, routerVars, ticks, calls>>

TrackerClearExpired(t) ==
    LET r == ClearExpired(stateFile[t], strikes[t], store, now)
    IN  /\ ops < MaxOps
        /\ ops' = ops + 1
        /\ strikes' = [strikes EXCEPT ![t] = r.strikes]
        /\ store' = r.store
        /\ ret' = [NoRet EXCEPT !.op = "clear_expired", !.tracker = t,
                                !.cleared = r.cleared, !.raised = r.raised,
                                !.at = now]
        /\ UNCHANGED <<now, stateFile, routerVars, ticks, calls>>

TrackerGetStatus(t) ==
    LET r == GetStatus(stateFile[t], strikes[t], store, now)
    IN  /\ ops < MaxOps
        /\ ops' = ops + 1
        /\ strikes' = [strikes EXCEPT ![t] = r.strikes]
        /\ store' = r.store
        /\ ret' = [NoRet EXCEPT !.op = "get_status", !.tracker = t,
                                !.active = r.active, !.snapshot = r.snapshot,
                                !.raised = r.raised, !.at = now]
        /\ UNCHANGED <<now, stateFile, routerVars, ticks, calls>>

-----------------------------------------------------------------------------
(* LLMRouter *)

\* profiles.yml: "ab" names an identifier that is no provider, "aa" names
\* the same provider twice
ProfileNames == {"ab", "ba", "aa"}
Profiles(name) ==
    IF name = "ab" THEN <<"a", "x", "b">>
    ELSE IF name = "ba" THEN <<"b", "a">>
    ELSE <<"a", "a">>

\* the profile names a caller passes; "nope" is no profile
CallNames == ProfileNames \cup {"nope"}

\* mutant of KnownProfile: every name passes for a profile
KnownProfileAny(name) == TRUE

\* profile in self.profiles
KnownProfile(name) == name \in ProfileNames

\* An exception raised by the adapter: which of the substrings the classifier
\* looks for its lower-cased message holds, the integer after "retry after"
\* in the message, and the retry-after response header (present, parsable)
Err(name, h429, hRate, hLimit, hQuota, hInsuff, msgRetry, hdr) ==
    [name |-> name, msgRetry |-> msgRetry, has429 |-> h429, hasRate |-> hRate,
     hasLimit |-> hLimit, hasQuota |-> hQuota, hasInsufficient |-> hInsuff,
     header |-> hdr]

NoHeader == [present |-> FALSE, parses |-> FALSE, value |-> 0]

\* "Connection timeout"
ErrTimeout == Err("timeout", FALSE, FALSE, FALSE, FALSE, FALSE, None, NoHeader)
\* "Error code: 429 - Rate limit exceeded"
Err429 == Err("429", TRUE, TRUE, TRUE, FALSE, FALSE, None, NoHeader)
\* "429 Too Many Requests. Retry-After: 30"
Err429Retry == Err("429 retry-after 30", TRUE, FALSE, FALSE, FALSE, FALSE, Some(30), NoHeader)

AdapterErrors == {ErrTimeout, Err429, Err429Retry}

\* mutant of IsRateLimitError: "429" or "rate", and "limit" with either
IsRateLimitErrorOrFirst(e) ==
    IF (e.has429 \/ e.hasRate) /\ e.hasLimit
    THEN <<TRUE, IF e.header.present /\ e.header.parses
                 THEN Some(e.header.value)
                 ELSE e.msgRetry>>
    ELSE IF e.hasQuota \/ e.hasInsufficient
         THEN <<TRUE, None>>
         ELSE <<FALSE, None>>

\* _is_rate_limit_error: <<is_rate_limit, retry_after>>
IsRateLimitError(e) ==
    IF e.has429 \/ (e.hasRate /\ e.hasLimit)
    THEN <<TRUE, IF e.header.present /\ e.header.parses
                 THEN Some(e.header.value)
                 ELSE e.msgRetry>>
    ELSE IF e.hasQuota \/ e.hasInsufficient
         THEN <<TRUE, None>>
         ELSE <<FALSE, None>>

\* The message of an exception as the fragments it is made of, joined by
\* blanks: str(error). Lower is str.lower() on a fragment, and Substrings
\* gives the texts the classifier looks for that a lower-cased fragment
\* contains ("moderate" contains "rate", "unlimited" contains "limit").
Fragments == {"429", "Rate", "LIMIT", "Quota", "insufficient", "timeout",
              "moderate", "unlimited", "Retry-After: 30"}

Lower(f) ==
    CASE f = "Rate" -> "rate"
      [] f = "LIMIT" -> "limit"
      [] f = "Quota" -> "quota"
      [] f = "Retry-After: 30" -> "retry-after: 30"
      [] OTHER -> f

Substrings(f) ==
    CASE f = "moderate" -> {"rate"}
      [] f = "unlimited" -> {"limit"}
      [] f \in {"429", "rate", "limit", "quota", "insufficient"} -> {f}
      [] OTHER -> {}

\* needle in error_str, error_str being str(error).lower()
Contains(msg, needle) ==
    \E k \in 1..Len(msg) : needle \in Substrings(Lower(msg[k]))

\* the integer a lower-cased fragment gives to retry.?after[:\s]+(\d+)
RetryAfterIn(f) == IF f = "retry-after: 30" THEN Some(30) ELSE None

\* re.search(r"retry.?after[:\s]+(\d+)", error_str): the integer of the
\* first fragment that matches, None when none does
SearchRetryAfter(msg) ==
    LET hits == {k \in 1..Len(msg) : RetryAfterIn(Lower(msg[k])) # None}
    IN  IF hits = {} THEN None
        ELSE RetryAfterIn(Lower(msg[CHOOSE k \in hits : \A j \in hits : k <= j]))

\* the exception with message msg and retry-after header hdr
ErrorOfMessage(msg, hdr) ==
    Err(msg, Contains(msg, "429"), Contains(msg, "rate"), Contains(msg, "limit"),
        Contains(msg, "quota"), Contains(msg, "insufficient"),
        SearchRetryAfter(msg), hdr)

\* _is_rate_limit_error called on the exception e
Classify(e) ==
    LET r == IsRateLimitError(e)
    IN  /\ ops < MaxOps
        /\ ops' = ops + 1
        /\ ret' = [NoRet EXCEPT !.op = "classify", !.error = e,
                                !.rate_limited = r[1], !.retry = r[2], !.at = now]
        /\ UNCHANGED <<now, stateFile, strikes, store, routerVars, ticks, calls>>

\* mutant of GetApiKey: a cached client stands in for a missing key
GetApiKeyOrCached(environ, pid) == pid \in environ \/ pid \in clients

\* _get_api_key: the provider's env_key is set in the environment
GetApiKey(environ, pid) == pid \in environ

\* the renewal policy call() passes to strike()
RenewalPolicy(pid) ==
    IF RateLimit(pid) # None THEN RateLimit(pid)[1] ELSE "rolling"

\* the three shapes of an attempt record; a key the dict lacks is None
SkippedAttempt(pid) ==
    [provider |-> pid, status |-> "skipped", reason |-> "no API key",
     renews_at |-> None, rate_limited |-> None]

StruckAttempt(pid, m) ==
    [provider |-> pid, status |-> "struck",
     reason |-> IF pid \in DOMAIN m /\ "reason" \in DOMAIN m[pid]
                THEN m[pid].reason ELSE "rate limited",
     renews_at |-> IF pid \in DOMAIN m /\ "renews_at" \in DOMAIN m[pid]
                   THEN Some(m[pid].renews_at) ELSE None,
     rate_limited |-> None]

\* mutant of FailedAttempt: the rate-limit flag is never set
FailedAttemptUnflagged(pid, e) ==
    [provider |-> pid, status |-> "failed", reason |-> e.name,
     renews_at |-> None, rate_limited |-> Some(FALSE)]

FailedAttempt(pid, e) ==
    [provider |-> pid, status |-> "failed", reason |-> e.name,
     renews_at |-> None, rate_limited |-> Some(IsRateLimitError(e)[1])]

\* The loop of call() from profile entry i up to the next adapter invocation
\* or the end of the profile, at one reading of the clock: the unknown
\* identifiers passed over, the skipped and struck records appended, and
\* what the availability checks did to the tracker and the file.
RECURSIVE Cascade(_, _, _, _, _, _)
Cascade(environ, prof, i, m, st, att) ==
    IF i > Len(prof)
    THEN [stop |-> "exhausted", idx |-> i, strikes |-> m, store |-> st,
          attempts |-> att, raised |-> NoError]
    ELSE LET pid == prof[i]
         IN  IF pid \notin Providers
             THEN Cascade(environ, prof, i + 1, m, st, att)
             ELSE IF ~GetApiKey(environ, pid)
                  THEN Cascade(environ, prof, i + 1, m, st, Append(att, SkippedAttempt(pid)))
                  ELSE LET r == IsAvailable(stateFile["router"], m, st, pid, now)
                       IN  IF r.raised # NoError
                           THEN [stop |-> "raised", idx |-> i,
                                 strikes |-> r.strikes, store |-> r.store,
                                 attempts |-> att, raised |-> r.raised]
                           ELSE IF ~r.avail
                           THEN Cascade(environ, prof, i + 1, r.strikes, r.store,
                                        Append(att, StruckAttempt(pid, r.strikes)))
                           ELSE [stop |-> "invoke", idx |-> i,
                                 strikes |-> r.strikes, store |-> r.store,
                                 attempts |-> att, raised |-> NoError]

\* the loop did not start or did not go on: an exception of the tracker,
\* raised outside the try block, leaves call()
Escapes(r, i, att) ==
    [stop |-> "raised", idx |-> i, strikes |-> r.strikes, store |-> r.store,
     attempts |-> att, raised |-> r.raised]

\* how a call() ended: the exception that left it (KeyError names the
\* profile, AllProvidersExhausted carries the attempts) or the RouterResult
Outcome(type) ==
    [type |-> type, named |-> "", attempts |-> <<>>, text |-> "",
     provider_id |-> "", provider_name |-> "", model |-> "", usage |-> None]

NoOutcome == Outcome("none")

\* what the adapter's SDK call returns: the text and the usage counts
\* <<input, output>>, which an OpenAI-compatible response may lack
Responses == {[text |-> "hello", usage |-> Some(<<3, 5>>)],
              [text |-> "hi", usage |-> None]}

\* _call_provider lines 166-193: the RouterResult of a response, for a call
\* that passes no model argument
RouterResult(pid, resp) ==
    [Outcome("result") EXCEPT
        !.text = resp.text,
        !.provider_id = pid,
        !.provider_name = ProviderName(pid),
        !.model = DefaultModel(pid),
        !.usage = IF Sdk(pid) = "anthropic" /\ resp.usage = None
                  THEN Some(<<0, 0>>)
                  ELSE resp.usage]

RouterIdle ==
    /\ clients = {}
    /\ pc = "idle"
    /\ profile = ""
    /\ idx = 0
    /\ attempts = <<>>
    /\ invoked = <<>>
    /\ outcome = NoOutcome
    /\ sweep = EmptyMap

\* an adapter invocation that has not returned
Pending(i) == [idx |-> i, error |-> None, response |-> None]

\* the state after the loop ran up to c: an adapter invocation in flight
\* (_call_provider entered, the client cached), AllProvidersExhausted, or
\* the exception that left the loop
Proceed(c) ==
    /\ strikes' = [strikes EXCEPT !["router"] = c.strikes]
    /\ store' = c.store
    /\ attempts' = c.attempts
    /\ idx' = c.idx
    /\ IF c.stop = "invoke"
       THEN /\ pc' = "invoking"
            /\ clients' = clients \cup {Profiles(profile')[c.idx]}
            /\ outcome' = Outcome("pending")
       ELSE /\ pc' = "idle"
            /\ outcome' = IF c.stop = "raised"
                          THEN Outcome(c.raised)
                          ELSE [Outcome("exhausted") EXCEPT !.attempts = c.attempts]
            /\ UNCHANGED clients

\* call(profile, ...) up to its first adapter invocation, made with the
\* environment holding the keys of the providers in keys
CallStart(name, keys) ==
    /\ pc = "idle"
    /\ calls < MaxCalls
    /\ calls' = calls + 1
    /\ env' = keys
    /\ profile' = name
    /\ IF ~KnownProfile(name)
       THEN /\ outcome' = [Outcome("KeyError") EXCEPT !.named = name]
            /\ attempts' = <<>>
            /\ invoked' = <<>>
            /\ sweep' = EmptyMap
            /\ idx' = 0
            /\ UNCHANGED <<strikes, store, pc, clients>>
       ELSE LET swept == ClearExpired(stateFile["router"], strikes["router"], store, now)
                c == IF swept.raised # NoError
                     THEN Escapes(swept, 0, <<>>)
                     ELSE Cascade(keys, Profiles(name), 1, swept.strikes,
                                  swept.store, <<>>)
            IN  /\ sweep' = swept.strikes
                /\ invoked' = IF c.stop = "invoke" THEN <<Pending(c.idx)>> ELSE <<>>
                /\ Proceed(c)
    /\ UNCHANGED <<now, stateFile, ret, ticks, ops>>

\* mutant of ReturnSuccess: the result is kept but the loop is not left
ReturnSuccessGoesOn(resp) ==
    LET c == Cascade(env, Profiles(profile), idx + 1, strikes["router"], store,
                     attempts)
    IN  /\ pc = "invoking"
        /\ invoked' = IF c.stop = "invoke"
                      THEN Append(invoked, Pending(c.idx))
                      ELSE invoked
        /\ profile' = profile
        /\ strikes' = [strikes EXCEPT !["router"] = c.strikes]
        /\ store' = c.store
        /\ attempts' = c.attempts
        /\ idx' = c.idx
        /\ pc' = IF c.stop = "invoke" THEN "invoking" ELSE "idle"
        /\ outcome' = RouterResult(Profiles(profile)[idx], resp)
        /\ UNCHANGED <<now, stateFile, ret, env, clients, sweep, ticks, ops, calls>>

\* mutant of ReturnSuccess: the result tells how many candidates came before
ReturnSuccessCounting(resp) ==
    /\ pc = "invoking"
    /\ pc' = "idle"
    /\ outcome' = [RouterResult(Profiles(profile)[idx], resp) EXCEPT
                      !.attempts = attempts]
    /\ invoked' = [invoked EXCEPT ![Len(invoked)].response = Some(resp)]
    /\ UNCHANGED <<now, trackerVars, env, clients, profile, idx, attempts,
                   sweep, ticks, ops, calls>>

\* the adapter returns the response resp: call() returns the RouterResult
ReturnSuccess(resp) ==
    /\ pc = "invoking"
    /\ pc' = "idle"
    /\ outcome' = RouterResult(Profiles(profile)[idx], resp)
    /\ invoked' = [invoked EXCEPT ![Len(invoked)].response = Some(resp)]
    /\ UNCHANGED <<now, trackerVars, env, clients, profile, idx, attempts,
                   sweep, ticks, ops, calls>>

\* mutant of ReturnFailure: every failure strikes, rate-limit or not
ReturnFailureAlwaysStrikes(e) ==
    LET pid == Profiles(profile)[idx]
        rl == IsRateLimitError(e)
        struck == Strike(stateFile["router"], strikes["router"], store, pid,
                         e.name, RenewalPolicy(pid), rl[2], now)
        c == IF struck.raised # NoError
             THEN Escapes(struck, idx, attempts)
             ELSE Cascade(env, Profiles(profile), idx + 1, struck.strikes,
                          struck.store, Append(attempts, FailedAttempt(pid, e)))
        done == [invoked EXCEPT ![Len(invoked)].error = Some(e)]
    IN  /\ pc = "invoking"
        /\ invoked' = IF c.stop = "invoke" THEN Append(done, Pending(c.idx)) ELSE done
        /\ profile' = profile
        /\ Proceed(c)
        /\ UNCHANGED <<now, stateFile, ret, env, sweep, ticks, ops, calls>>

\* mutant of ReturnFailure: the entry that failed is tried again
ReturnFailureRetries(e) ==
    /\ pc = "invoking"
    /\ invoked' = Append([invoked EXCEPT ![Len(invoked)].error = Some(e)],
                         Pending(idx))
    /\ attempts' = Append(attempts, FailedAttempt(Profiles(profile)[idx], e))
    /\ UNCHANGED <<now, trackerVars, env, clients, pc, profile, idx, outcome,
                   sweep, ticks, ops, calls>>

\* the adapter raises e: the except branch of call(), then the loop goes on;
\* an exception of strike() is raised inside the handler and leaves call()
ReturnFailure(e) ==
    LET pid == Profiles(profile)[idx]
        rl == IsRateLimitError(e)
        struck == IF rl[1]
                  THEN Strike(stateFile["router"], strikes["router"], store, pid,
                              e.name, RenewalPolicy(pid), rl[2], now)
                  ELSE [strikes |-> strikes["router"], store |-> store,
                        raised |-> NoError]
        c == IF struck.raised # NoError
             THEN Escapes(struck, idx, attempts)
             ELSE Cascade(env, Profiles(profile), idx + 1, struck.strikes,
                          struck.store, Append(attempts, FailedAttempt(pid, e)))
        done == [invoked EXCEPT ![Len(invoked)].error = Some(e)]
    IN  /\ pc = "invoking"
        /\ invoked' = IF c.stop = "invoke" THEN Append(done, Pending(c.idx)) ELSE done
        /\ profile' = profile
        /\ Proceed(c)
        /\ UNCHANGED <<now, stateFile, ret, env, sweep, ticks, ops, calls>>

\* mutant of ListEntry: a provider without a key passes for available
ListEntryIgnoresKey(pid, hasKey, avail, m) ==
    [id |-> pid, name |-> ProviderName(pid), model |-> DefaultModel(pid),
     has_key |-> hasKey, is_available |-> avail,
     strike |-> IF pid \in DOMAIN m THEN Some(m[pid]) ELSE None]

\* one entry of list_available; "strike" is the record the tracker holds
\* after the availability check, None when it holds none
ListEntry(pid, hasKey, avail, m) ==
    [id |-> pid, name |-> ProviderName(pid), model |-> DefaultModel(pid),
     has_key |-> hasKey, is_available |-> avail /\ hasKey,
     strike |-> IF pid \in DOMAIN m THEN Some(m[pid]) ELSE None]

\* the loop of list_available from profile entry i on: is_available runs
\* for every known provider, with or without a key
RECURSIVE ListEntries(_, _, _, _, _, _)
ListEntries(environ, prof, i, m, st, acc) ==
    IF i > Len(prof)
    THEN [listing |-> acc, strikes |-> m, store |-> st, raised |-> NoError]
    ELSE LET pid == prof[i]
         IN  IF pid \notin Providers
             THEN ListEntries(environ, prof, i + 1, m, st, acc)
             ELSE LET r == IsAvailable(stateFile["router"], m, st, pid, now)
                  IN  IF r.raised # NoError
                      THEN [listing |-> <<>>, strikes |-> r.strikes,
                            store |-> r.store, raised |-> r.raised]
                      ELSE ListEntries(environ, prof, i + 1, r.strikes, r.store,
                                Append(acc, ListEntry(pid, GetApiKey(environ, pid),
                                                      r.avail, r.strikes)))

\* mutant of ListAvailable: the sweep runs before the profile is looked up
ListAvailableSweepsFirst(name, keys) ==
    LET swept == ClearExpired(stateFile["router"], strikes["router"], store, now)
        r == IF ~KnownProfile(name)
             THEN [listing |-> <<>>, strikes |-> swept.strikes,
                   store |-> swept.store, raised |-> swept.raised]
             ELSE ListEntries(keys, Profiles(name), 1, swept.strikes,
                              swept.store, <<>>)
    IN  /\ pc = "idle"
        /\ ops < MaxOps
        /\ ops' = ops + 1
        /\ env' = keys
        /\ strikes' = [strikes EXCEPT !["router"] = r.strikes]
        /\ store' = r.store
        /\ ret' = [NoRet EXCEPT !.op = "list_available", !.profile = name,
                                !.listing = r.listing, !.raised = r.raised,
                                !.at = now]
        /\ UNCHANGED <<now, stateFile, clients, pc, profile, idx, attempts,
                       invoked, outcome, sweep, ticks, calls>>

\* list_available(profile), made with the environment holding the keys of
\* the providers in keys
ListAvailable(name, keys) ==
    LET swept == ClearExpired(stateFile["router"], strikes["router"], store, now)
        r == IF ~KnownProfile(name)
             THEN [listing |-> <<>>, strikes |-> strikes["router"],
                   store |-> store, raised |-> NoError]
             ELSE IF swept.raised # NoError
                  THEN [listing |-> <<>>, strikes |-> swept.strikes,
                        store |-> swept.store, raised |-> swept.raised]
                  ELSE ListEntries(keys, Profiles(name), 1, swept.strikes,
                                   swept.store, <<>>)
    IN  /\ pc = "idle"
        /\ ops < MaxOps
        /\ ops' = ops + 1
        /\ env' = keys
        /\ strikes' = [strikes EXCEPT !["router"] = r.strikes]
        /\ store' = r.store
        /\ ret' = [NoRet EXCEPT !.op = "list_available", !.profile = name,
                                !.listing = r.listing, !.raised = r.raised,
                                !.at = now]
        /\ UNCHANGED <<now, stateFile, clients, pc, profile, idx, attempts,
                       invoked, outcome, sweep, ticks, calls>>

\* 2023-12-31T23:58:50Z: seventy seconds before the day, month and year turn
StartTime == Datetime(2023, 12, 31, 23, 58, 50)

\* a state file left by an earlier run: "a" struck ten seconds before the
\* start for 30 s, "b" struck then until midnight
PriorFile ==
    LET m0 == Strike(TRUE, EmptyMap, NoFile, "a", "prior", "rolling", Some(30),
                     StartTime - 10).strikes
    IN  Strike(TRUE, m0, NoFile, "b", "prior", "daily", None, StartTime - 10).store

-----------------------------------------------------------------------------
(* Specification of the router: one LLMRouter, built with or without a     *)
(* state file, the file empty or left by an earlier run.                   *)

Init ==
    /\ now = StartTime
    /\ \E f \in BOOLEAN, st \in {NoFile, PriorFile} :
          /\ f \/ st = NoFile
          /\ stateFile = [t \in Trackers |-> IF t = "router" THEN f ELSE TRUE]
          /\ store = st
    /\ strikes = [t \in Trackers |-> Load(stateFile[t], store).strikes]
    /\ ret = NoRet
    /\ env = {}
    /\ RouterIdle
    /\ ticks = 0
    /\ ops = 0
    /\ calls = 0

Next ==
    \/ Tick
    \/ \E name \in CallNames, keys \in SUBSET Providers : CallStart(name, keys)
    \/ \E resp \in Responses : ReturnSuccess(resp)
    \/ \E e \in AdapterErrors : ReturnFailure(e)

Spec == Init /\ [][Next]_vars

\* the adapter invocation in flight returns a response or raises
AdapterReturns ==
    \/ \E resp \in Responses : ReturnSuccess(resp)
    \/ \E e \in AdapterErrors : ReturnFailure(e)

\* The router with adapters that always answer: an invocation in flight
\* does not stay in flight for ever.
SpecLive == Init /\ [][Next]_vars /\ WF_vars(AdapterReturns)

-----
(* Specification of the tracker alone: two tracker instances, the second   *)
(* always on the state file, the first with or without it.                 *)

TrackerInit ==
    /\ now = StartTime
    /\ stateFile \in {f \in [Trackers -> BOOLEAN] : f["other"]}
    /\ store \in {NoFile, PriorFile}
    /\ strikes = [t \in Trackers |-> Load(stateFile[t], store).strikes]
    /\ ret = NoRet
    /\ env = {}
    /\ RouterIdle
    /\ ticks = 0
    /\ ops = 0
    /\ calls = 0

TrackerNext ==
    \/ Tick
    \/ Construct("other")
    \/ \E t \in Trackers, pid \in Providers : TrackerIsAvailable(t, pid)
    \/ \E pid \in Providers, a \in StrikeArgs :
            TrackerStrike("router", pid, a[1], a[2])
    \/ \E t \in Trackers : TrackerClearExpired(t)
    \/ \E t \in Trackers : TrackerGetStatus(t)

SpecTracker == TrackerInit /\ [][TrackerNext]_vars

-----------------------------------------------------------------------------
(* Specification of strike() alone: one strike without a retry delay on a  *)
(* tracker without a state file, at instants drawn from every month of a   *)
(* common and of a leap year.                                              *)

SampleYears == {2023, 2024}
SampleSeconds == {0, 1, SecondsPerDay - 1}

\* the first and the last day of each month, at midnight, one second after
\* it and one second before the next
SampleInstants ==
    UNION {{Datetime(y, m, d, 0, 0, 0) + sec :
               d \in {1, DaysInMonth(y, m)}, sec \in SampleSeconds} :
           y \in SampleYears, m \in 1..12}

RenewInit ==
    /\ now \in SampleInstants
    /\ stateFile = [t \in Trackers |-> t = "other"]
    /\ store = NoFile
    /\ strikes = [t \in Trackers |-> EmptyMap]
    /\ ret = NoRet
    /\ env = {}
    /\ RouterIdle
    /\ ticks = 0
    /\ ops = 0
    /\ calls = 0

RenewNext ==
    \E policy \in {"rolling", "daily", "monthly"} :
        ops = 0 /\ TrackerStrike("router", "a", policy, None)

SpecRenew == RenewInit /\ [][RenewNext]_vars

-----------------------------------------------------------------------------
(* Specification of list_available: the router of Spec, asked which        *)
(* providers of a profile are available while the clock goes on.           *)

ListNext ==
    \/ Tick
    \/ \E name \in CallNames, keys \in SUBSET Providers : ListAvailable(name, keys)

SpecList == Init /\ [][ListNext]_vars

-----------------------------------------------------------------------------
(* Specification of two trackers that share the state file and both        *)
(* strike: each was constructed on the file, still missing, before the     *)
(* other's first strike.                                                   *)

SharedInit ==
    /\ now = StartTime
    /\ stateFile = [t \in Trackers |-> TRUE]
    /\ store = NoFile
    /\ strikes = [t \in Trackers |-> Load(stateFile[t], store).strikes]
    /\ ret = NoRet
    /\ env = {}
    /\ RouterIdle
    /\ ticks = 0
    /\ ops = 0
    /\ calls = 0

SharedNext ==
    \/ Tick
    \/ \E t \in Trackers, pid \in Providers, a \in StrikeArgs :
            TrackerStrike(t, pid, a[1], a[2])

SpecShared == SharedInit /\ [][SharedNext]_vars

-----------------------------------------------------------------------------
(* Specification of the classifier alone: _is_rate_limit_error on          *)
(* exceptions whose message has up to two fragments, without a retry-after *)
(* header, with one that is an integer and with one that is not.           *)

MaxFragments == 2

Messages == UNION {[1..n -> Fragments] : n \in 0..MaxFragments}

Headers == {NoHeader,
            [present |-> TRUE, parses |-> TRUE, value |-> 10],
            [present |-> TRUE, parses |-> FALSE, value |-> 0]}

ClassifyNext ==
    \E msg \in Messages, hdr \in Headers : Classify(ErrorOfMessage(msg, hdr))

SpecClassify == SharedInit /\ [][ClassifyNext]_vars

-----------------------------------------------------------------------------
(* The same two specifications in an environment with faults: the state    *)
(* file is on a read-only file system, is unreadable, holds no JSON or     *)
(* JSON of another shape, or holds strike records that strike() did not     *)
(* write. Every tracker has the file; one whose constructor would raise on *)
(* the file as it is was constructed before the file came to be so.        *)

FileOf(doc) == [exists |-> TRUE, readable |-> TRUE, writable |-> TRUE, doc |-> doc]

ReadOnly(st) == [st EXCEPT !.writable = FALSE]

\* strike records of another writer: without "renews_at", with an empty
\* one, and with one that is no date (month 13)
RecordNoRenewal == [struck_at |-> IsoFormat(StartTime - 10), reason |-> "prior"]
RecordEmptyRenewal ==
    [struck_at |-> IsoFormat(StartTime - 10), reason |-> "prior", renews_at |-> <<>>]
RecordBadRenewal ==
    [struck_at |-> IsoFormat(StartTime - 10), reason |-> "prior",
     renews_at |-> <<2024, 13, 1, 0, 0, 0>>]

MissingRenewalFile ==
    FileOf(ObjectDoc([p \in Providers |-> IF p = "a" THEN RecordNoRenewal
                                           ELSE RecordEmptyRenewal]))
UnparsableFile ==
    FileOf(ObjectDoc([p \in Providers |-> IF p = "a" THEN RecordBadRenewal
                                           ELSE PriorFile.doc.strikes[p]]))
ListFile == FileOf([kind |-> "list", hasStrikes |-> FALSE, strikes |-> EmptyMap])
InvalidFile == FileOf([kind |-> "invalid", hasStrikes |-> FALSE, strikes |-> EmptyMap])
NoStrikesFile == FileOf([kind |-> "object", hasStrikes |-> FALSE, strikes |-> EmptyMap])
UnreadableFile == [PriorFile EXCEPT !.readable = FALSE]

FaultyFiles ==
    {ReadOnly(NoFile), ReadOnly(PriorFile), MissingRenewalFile, UnparsableFile,
     ListFile, InvalidFile, NoStrikesFile, UnreadableFile}

FaultInit ==
    /\ now = StartTime
    /\ store \in FaultyFiles
    /\ stateFile = [t \in Trackers |-> TRUE]
    /\ strikes = [t \in Trackers |-> Load(stateFile[t], store).strikes]
    /\ ret = NoRet
    /\ env = {}
    /\ RouterIdle
    /\ ticks = 0
    /\ ops = 0
    /\ calls = 0

SpecFaults == FaultInit /\ [][Next]_vars

SpecTrackerFaults == FaultInit /\ [][TrackerNext]_vars

-----------------------------------------------------------------------------
(* Specification of strike() with a retry delay: one strike at the sample  *)
(* instants, the delay being absent, zero, negative or positive (the       *)
(* classifier hands on int() of the retry-after header, of either sign).   *)

RetryValues == {None, Some(0), Some(-5), Some(30)}

RetryNext ==
    \E policy \in {"rolling", "daily", "monthly"}, retry \in RetryValues :
        ops = 0 /\ TrackerStrike("router", "a", policy, retry)

SpecRetry == RenewInit /\ [][RetryNext]_vars

-----------------------------------------------------------------------------
(* Specification of a single tracker on a state file that no one else      *)
(* writes and that can be written: the router's tracker, every operation.  *)

SingleInit ==
    /\ now = StartTime
    /\ stateFile = [t \in Trackers |-> TRUE]
    /\ store \in {NoFile, PriorFile}
    /\ strikes = [t \in Trackers |-> Load(stateFile[t], store).strikes]
    /\ ret = NoRet
    /\ env = {}
    /\ RouterIdle
    /\ ticks = 0
    /\ ops = 0
    /\ calls = 0

SingleNext ==
    \/ Tick
    \/ \E pid \in Providers : TrackerIsAvailable("router", pid)
    \/ \E pid \in Providers, a \in StrikeArgs :
            TrackerStrike("router", pid, a[1], a[2])
    \/ TrackerClearExpired("router")
    \/ TrackerGetStatus("router")

SpecSingle == SingleInit /\ [][SingleNext]_vars

-----------------------------------------------------------------------------
(* Helpers of the properties *)

Last(seq) == seq[Len(seq)]

Range(seq) == {seq[k] : k \in 1..Len(seq)}

\* the profile of the call in progress, or of the last call
CurrentProfile == Profiles(profile)

\* the indices of a profile's entries that name a provider, in profile order
KnownEntries(prof) ==
    LET IsKnown(i) == prof[i] \in Providers
    IN  SelectSeq([i \in 1..Len(prof) |-> i], IsKnown)

InvokedEntries == {invoked[k].idx : k \in 1..Len(invoked)}

\* the error the invocation of profile entry i ended with
ErrorOf(i) == (CHOOSE k \in 1..Len(invoked) : invoked[k].idx = i)

\* the router's tracker holds a strike of pid that has not yet renewed
ActiveStrike(m, pid, t) ==
    pid \in DOMAIN m /\ t < FromIsoFormat(m[pid].renews_at)

CallEnded == pc = "idle" /\ profile \in ProfileNames

-----------------------------------------------------------------------------
(* C1: call() invokes candidates in profile order, returns the first       *)
(* success and invokes nothing after it.                                   *)

\* C1: the entries handed to the adapter are known providers taken in
\* strictly ascending profile position; every invocation but the last one
\* has failed, so nothing is invoked after a success; an entry passed over
\* without invocation had no key or was struck; and a returned result is
\* that of the last entry invoked, with the call over.
C1_FirstSuccessInOrder ==
    /\ \A k \in 1..Len(invoked) :
          /\ invoked[k].idx \in 1..Len(CurrentProfile)
          /\ CurrentProfile[invoked[k].idx] \in Providers
          /\ k < Len(invoked) =>
                /\ invoked[k].idx < invoked[k + 1].idx
                /\ invoked[k].error # None
                /\ \A j \in (invoked[k].idx + 1)..(invoked[k + 1].idx - 1) :
                      \/ CurrentProfile[j] \notin Providers
                      \/ CurrentProfile[j] \notin env
                      \/ \E r \in Range(attempts) :
                            r.provider = CurrentProfile[j] /\ r.status = "struck"
    /\ pc = "invoking" => invoked # <<>> /\ Last(invoked).idx = idx
                          /\ Last(invoked).error = None
    /\ outcome.type = "result" =>
          /\ pc = "idle"
          /\ invoked # <<>>
          /\ Last(invoked).error = None
          /\ outcome.provider_id = CurrentProfile[Last(invoked).idx]

\* a call on <<"b", "a">> returned b's result although a, which comes after
\* it, had a key and no strike
C1_Witness ==
    /\ outcome.type = "result"
    /\ profile = "ba"
    /\ outcome.provider_id = "b"
    /\ "a" \in env
    /\ "a" \notin DOMAIN strikes["router"]
    /\ Len(invoked) = 1

-----------------------------------------------------------------------------
(* C2: the attempts list of AllProvidersExhausted.                         *)

\* C2: when call() ends in AllProvidersExhausted the exception carries the
\* attempts list, which holds one record per profile entry naming a known
\* provider, in profile order: failed, with the rate-limit flag of the
\* classification and the error as reason, for an entry that was invoked;
\* skipped for one without a key; struck, with the renewal time, otherwise.
\* Every entry after a failed one is there, so no failure stopped the loop.
C2_ExhaustedAttempts ==
    (CallEnded /\ outcome.type = "exhausted") =>
        LET known == KnownEntries(CurrentProfile)
        IN  /\ outcome.attempts = attempts
            /\ Len(attempts) = Len(known)
            /\ \A k \in 1..Len(known) :
                  LET i == known[k]
                      pid == CurrentProfile[i]
                      rec == attempts[k]
                  IN  /\ rec.provider = pid
                      /\ IF i \in InvokedEntries
                         THEN /\ invoked[ErrorOf(i)].error # None
                              /\ rec.status = "failed"
                              /\ rec.reason = invoked[ErrorOf(i)].error[1].name
                              /\ rec.rate_limited =
                                   Some(IsRateLimitError(invoked[ErrorOf(i)].error[1])[1])
                         ELSE IF pid \notin env
                              THEN rec.status = "skipped"
                              ELSE rec.status = "struck" /\ rec.renews_at # None

\* a call on <<"b", "a">> ended exhausted after b failed with a rate-limit
\* error and a, evaluated all the same, failed with another error
C2_Witness ==
    /\ CallEnded
    /\ outcome.type = "exhausted"
    /\ profile = "ba"
    /\ Len(attempts) = 2
    /\ attempts[1].status = "failed" /\ attempts[1].rate_limited = Some(TRUE)
    /\ attempts[2].status = "failed" /\ attempts[2].rate_limited = Some(FALSE)

-----------------------------------------------------------------------------
(* C3: a rate-limit failure strikes the provider, and the strike keeps it  *)
(* from being invoked until it renews.                                     *)

\* the step is the return of a failed invocation of entry i with error e
FailedWith(i, e) ==
    /\ pc = "invoking"
    /\ idx = i
    /\ Len(invoked') >= Len(invoked)
    /\ invoked'[Len(invoked)].error = Some(e)

\* the step is one of call(): it starts a call or handles a failure
CascadeStep == calls' # calls \/ (pc = "invoking" /\ attempts' # attempts)

\* the records the loop appended in a step of call(), after the failed one
NewAttempts ==
    LET from == IF calls' # calls THEN 1 ELSE Len(attempts) + 2
    IN  {attempts'[k] : k \in from..Len(attempts')}

\* C3: a failure classified as rate-limit at time T leaves a strike of that
\* provider struck at T with the error as reason, renewing at T + 60 s when
\* no retry delay was parsed and the provider's policy is rolling (the
\* default); in every step of call() a provider is handed to the adapter
\* only if it has no strike renewing after the current time, a candidate
\* that has a key and such a strike gets a struck record with the strike's
\* reason and renews-at, and no other candidate gets one: once the strike
\* has renewed the provider is invoked again.
C3_StrikeBlocksUntilRenewal ==
    [][ /\ \A i \in 1..Len(CurrentProfile), e \in AdapterErrors :
             (FailedWith(i, e) /\ IsRateLimitError(e)[1]) =>
                LET pid == CurrentProfile[i]
                    m == strikes'["router"]
                IN  /\ pid \in DOMAIN m
                    /\ m[pid].struck_at = IsoFormat(now)
                    /\ m[pid].reason = e.name
                    /\ (IsRateLimitError(e)[2] = None /\ RenewalPolicy(pid) = "rolling")
                          => FromIsoFormat(m[pid].renews_at) = now + 60
        /\ CascadeStep =>
             LET m == strikes'["router"]
             IN  /\ pc' = "invoking" =>
                       ~ActiveStrike(m, Profiles(profile')[idx'], now)
                 /\ \A r \in NewAttempts :
                       /\ r.status \in {"skipped", "struck"}
                       /\ r.status = "struck" <=>
                             (r.provider \in env' /\ ActiveStrike(m, r.provider, now))
                       /\ r.status = "struck" =>
                             /\ r.reason = m[r.provider].reason
                             /\ r.renews_at = Some(m[r.provider].renews_at)
      ]_vars

\* the second call finds b, struck by the first call's 429 for 60 s, still
\* struck and reports it so
C3_Witness ==
    /\ calls = 2
    /\ \E k \in 1..Len(attempts) :
          /\ attempts[k].provider = "b"
          /\ attempts[k].status = "struck"
          /\ attempts[k].reason = "429"
          /\ "b" \in DOMAIN strikes["router"]
          /\ attempts[k].renews_at = Some(strikes["router"]["b"].renews_at)
          /\ FromIsoFormat(strikes["router"]["b"].renews_at)
                = FromIsoFormat(strikes["router"]["b"].struck_at) + 60
          /\ now < FromIsoFormat(strikes["router"]["b"].renews_at)

-----------------------------------------------------------------------------
(* C4: a failure that is no rate-limit records no strike.                  *)

AllFailedUnflagged ==
    /\ CallEnded
    /\ outcome.type = "exhausted"
    /\ attempts # <<>>
    /\ \A r \in Range(attempts) :
          r.status = "failed" /\ r.rate_limited = Some(FALSE)

\* C4 as claimed: after a call in which every candidate failed with a
\* non-rate-limit error the tracker holds exactly the strikes it held after
\* the call's expiry sweep.
C4_AsClaimed == AllFailedUnflagged => strikes["router"] = sweep

\* C4 as amended: the return of an invocation that failed with an error not
\* classified as rate-limit adds no strike and changes none; after a call
\* in which every candidate failed that way the tracker holds no strike it
\* did not hold after the call's expiry sweep, each one it still holds is
\* unchanged, and each one it lost had renewed by the end of the call (the
\* availability check of that candidate deleted it).
C4_NoStrikeRecorded ==
    [][ /\ \A i \in 1..Len(CurrentProfile), e \in AdapterErrors :
             (FailedWith(i, e) /\ ~IsRateLimitError(e)[1]) =>
                \A p \in DOMAIN strikes'["router"] :
                    /\ p \in DOMAIN strikes["router"]
                    /\ strikes'["router"][p] = strikes["router"][p]
        /\ AllFailedUnflagged' =>
             /\ \A p \in DOMAIN strikes'["router"] :
                   p \in DOMAIN sweep' /\ strikes'["router"][p] = sweep'[p]
             /\ \A p \in DOMAIN sweep' \ DOMAIN strikes'["router"] :
                   FromIsoFormat(sweep'[p].renews_at) <= now'
      ]_vars

\* every candidate failed with "Connection timeout" while the tracker held
\* a strike from before the call
C4_Witness ==
    /\ AllFailedUnflagged
    /\ Len(attempts) = 2
    /\ sweep # EmptyMap

-----------------------------------------------------------------------------
(* C5: a candidate without a credential is never invoked.                  *)

\* C5: every entry handed to the adapter names a provider whose key is in
\* the environment of the call, cached client or not; when a call is over
\* without a result, each known entry whose provider has no key has its
\* skipped record; and a call on a profile none of whose providers has a
\* key ends, with no invocation at all, in AllProvidersExhausted.
C5_NoKeyNoInvocation ==
    /\ \A k \in 1..Len(invoked) : CurrentProfile[invoked[k].idx] \in env
    /\ (CallEnded /\ outcome.type = "exhausted") =>
          LET known == KnownEntries(CurrentProfile)
          IN  \A k \in 1..Len(known) :
                 CurrentProfile[known[k]] \notin env =>
                     /\ k <= Len(attempts)
                     /\ attempts[k].status = "skipped"
                     /\ attempts[k].provider = CurrentProfile[known[k]]
    /\ (profile \in ProfileNames /\ Range(CurrentProfile) \cap env = {}) =>
          /\ pc = "idle"
          /\ outcome.type = "exhausted"
          /\ invoked = <<>>
          /\ \A r \in Range(attempts) : r.status = "skipped"

\* no provider has a key, a's client is cached from the call before, and
\* the call ended exhausted with a skipped and never invoked
C5_Witness ==
    /\ CallEnded
    /\ env = {}
    /\ "a" \in clients
    /\ outcome.type = "exhausted"
    /\ invoked = <<>>
    /\ attempts # <<>>
    /\ attempts[1] = SkippedAttempt("a")

-----------------------------------------------------------------------------
(* C6: is_available and the lazy expiry.                                   *)

\* the step is the direct tracker operation op
TrackerStep(op) == ops' # ops /\ ret'.op = op

\* every tracker but t keeps its mapping
OthersKeep(t) == \A u \in Trackers \ {t} : strikes'[u] = strikes[u]

\* C6: is_available(p) answers false exactly when the tracker holds a
\* record of p whose renews-at is after the current time, and then changes
\* nothing; when it finds a record whose renews-at is now or earlier it
\* deletes that record alone and, given a state file, leaves the file equal
\* to the mapping, swept beforehand or not. After strike(p, rolling, 30) at
\* T the answer is false at T + 29 s and true at T + 30 s.
C6_AvailableIffNotBlocked ==
    [][ TrackerStep("is_available") =>
          LET t == ret'.tracker
              p == ret'.provider
              m == strikes[t]
              held == p \in DOMAIN m
              blocked == held /\ FromIsoFormat(m[p].renews_at) > now
          IN  /\ ret'.avail = ~blocked
              /\ OthersKeep(t)
              /\ (blocked \/ ~held) => strikes' = strikes /\ store' = store
              /\ (held /\ ~blocked) =>
                    /\ DOMAIN strikes'[t] = DOMAIN m \ {p}
                    /\ \A q \in DOMAIN strikes'[t] : strikes'[t][q] = m[q]
                    /\ stateFile[t] =>
                          store'.exists /\ store'.doc.strikes = strikes'[t]
              /\ (ret.op = "strike" /\ ret.tracker = t /\ ret.provider = p
                    /\ ret.policy = "rolling" /\ ret.retry = Some(30)) =>
                    /\ now = ret.at + 29 => ~ret'.avail
                    /\ now = ret.at + 30 => ret'.avail
      ]_vars

\* is_available("a") on the router's tracker answered true in the very
\* second a's strike renews and took the record out of the mapping and of
\* the file; the other tracker, loaded before, still holds the record
C6_Witness ==
    /\ ret.op = "is_available"
    /\ ret.tracker = "router"
    /\ ret.provider = "a"
    /\ ret.avail
    /\ stateFile["router"]
    /\ "a" \notin DOMAIN strikes["router"]
    /\ store.exists /\ "a" \notin DOMAIN store.doc.strikes
    /\ "a" \in DOMAIN strikes["other"]
    /\ FromIsoFormat(strikes["other"]["a"].renews_at) = now

-----------------------------------------------------------------------------
(* C7, C8: the renewal of a daily and of a monthly strike.                 *)

\* the strike the tracker holds is the one the last operation wrote
JustStruck(policy) ==
    /\ ret.op = "strike"
    /\ ret.policy = policy
    /\ ret.retry = None
    /\ ret.provider \in DOMAIN strikes[ret.tracker]

\* C7: a daily strike without a retry delay renews at a midnight (UTC) that
\* is after the strike time and at most one day after it: the first one.
C7_DailyNextMidnight ==
    JustStruck("daily") =>
        LET rec == strikes[ret.tracker][ret.provider]
            r == FromIsoFormat(rec.renews_at)
        IN  /\ rec.struck_at = IsoFormat(ret.at)
            /\ rec.renews_at[4] = 0 /\ rec.renews_at[5] = 0 /\ rec.renews_at[6] = 0
            /\ r % SecondsPerDay = 0
            /\ r > ret.at
            /\ r - ret.at <= SecondsPerDay

\* a daily strike made at exactly 00:00:00
C7_Witness ==
    /\ JustStruck("daily")
    /\ ret.at % SecondsPerDay = 0
    /\ FromIsoFormat(strikes[ret.tracker][ret.provider].renews_at)
          = ret.at + SecondsPerDay

\* C8: a monthly strike without a retry delay renews at 00:00 on the 1st of
\* the month after the month of the strike: January of the next year for a
\* strike in December, the next month of the same year otherwise; it is
\* after the strike, and the second before it is still in the strike's month.
C8_MonthlyFirstOfNextMonth ==
    JustStruck("monthly") =>
        LET rec == strikes[ret.tracker][ret.provider]
            at == rec.struck_at
            r == FromIsoFormat(rec.renews_at)
            before == IsoFormat(r - 1)
        IN  /\ at = IsoFormat(ret.at)
            /\ rec.renews_at =
                  IF at[2] = 12 THEN <<at[1] + 1, 1, 1, 0, 0, 0>>
                  ELSE <<at[1], at[2] + 1, 1, 0, 0, 0>>
            /\ r > ret.at
            /\ before[1] = at[1] /\ before[2] = at[2]

\* a monthly strike made on 31 December 2023 renews on 1 January 2024
C8_Witness ==
    /\ JustStruck("monthly")
    /\ strikes[ret.tracker][ret.provider].struck_at[1] = 2023
    /\ strikes[ret.tracker][ret.provider].struck_at[2] = 12
    /\ strikes[ret.tracker][ret.provider].struck_at[3] = 31
    /\ strikes[ret.tracker][ret.provider].renews_at = <<2024, 1, 1, 0, 0, 0>>

-----------------------------------------------------------------------------
(* C9: the state file round-trips.                                         *)

\* instants at which the two trackers are asked: now and around each renewal
ProbeTimes ==
    {now} \cup Renewals \cup {r - 1 : r \in Renewals} \cup {r + 1 : r \in Renewals}

\* C9: a tracker constructed on the state file after strike(p, ...) on a
\* tracker that has the file holds a record of p with the same renews-at,
\* holds the same records as that tracker, and answers is_available as that
\* tracker does for every provider at every time.
C9_RoundTrip ==
    [][ (TrackerStep("construct") /\ ret.op = "strike" /\ stateFile[ret.tracker]
            /\ ret'.tracker # ret.tracker) =>
          LET orig == strikes[ret.tracker]
              fresh == strikes'[ret'.tracker]
              p == ret.provider
          IN  /\ p \in DOMAIN fresh
              /\ fresh[p].renews_at = orig[p].renews_at
              /\ fresh[p].renews_at = IsoFormat(RenewsAt(ret.at, ret.policy, ret.retry))
              /\ fresh = orig
              /\ \A q \in Providers, t \in ProbeTimes :
                    IsAvailable(TRUE, fresh, store', q, t).avail
                       = IsAvailable(TRUE, orig, store, q, t).avail
      ]_vars

\* the other tracker was constructed after the router's tracker, which has
\* the file, struck a; it holds a's record and b's from the earlier run
C9_Witness ==
    /\ ret.op = "construct"
    /\ ret.tracker = "other"
    /\ stateFile["router"]
    /\ ops = 2
    /\ "a" \in DOMAIN strikes["other"]
    /\ strikes["other"]["a"].reason = "manual"
    /\ "b" \in DOMAIN strikes["other"]
    /\ strikes["other"] = strikes["router"]

-----------------------------------------------------------------------------
(* C10: clear_expired.                                                     *)

\* C10: clear_expired() returns exactly the providers whose record has a
\* renews-at at or before the current time, removes exactly those records
\* and leaves the others as they were; run again at the same time straight
\* after, it returns nothing and changes nothing.
C10_ClearExpiredExact ==
    [][ TrackerStep("clear_expired") =>
          LET t == ret'.tracker
              m == strikes[t]
              due == {p \in DOMAIN m : FromIsoFormat(m[p].renews_at) <= now}
          IN  /\ ret'.cleared = due
              /\ DOMAIN strikes'[t] = DOMAIN m \ due
              /\ \A q \in DOMAIN strikes'[t] : strikes'[t][q] = m[q]
              /\ OthersKeep(t)
              /\ (ret.op = "clear_expired" /\ ret.tracker = t /\ ret.at = now) =>
                    /\ ret'.cleared = {}
                    /\ strikes' = strikes
                    /\ store' = store
      ]_vars

\* clear_expired() in the very second a's strike renews returned a alone
\* and left b's strike, which renews at midnight, in place
C10_Witness ==
    /\ ret.op = "clear_expired"
    /\ ret.cleared = {"a"}
    /\ "b" \in DOMAIN strikes[ret.tracker]
    /\ now < FromIsoFormat(strikes[ret.tracker]["b"].renews_at)
    /\ \E u \in Trackers :
          "a" \in DOMAIN strikes[u] /\ FromIsoFormat(strikes[u]["a"].renews_at) = now

-----------------------------------------------------------------------------
(* C11: call() with an unknown profile name.                               *)

\* C11: a call() whose profile name is no profile ends at once in KeyError
\* naming that profile: the expiry sweep does not run, so the tracker and
\* the state file stay as they were, no attempt is recorded, no client is
\* made and no provider is invoked.
C11_UnknownProfile ==
    [][ (calls' # calls /\ profile' \notin ProfileNames) =>
          /\ pc' = "idle"
          /\ outcome'.type = "KeyError"
          /\ outcome'.named = profile'
          /\ strikes' = strikes
          /\ store' = store
          /\ clients' = clients
          /\ attempts' = <<>>
          /\ invoked' = <<>>
      ]_vars

\* call("nope") ended in KeyError naming "nope" while the tracker held a
\* strike that had renewed, which a sweep would have removed
C11_Witness ==
    /\ outcome.type = "KeyError"
    /\ outcome.named = "nope"
    /\ profile = "nope"
    /\ \E p \in DOMAIN strikes["router"] :
          FromIsoFormat(strikes["router"][p].renews_at) <= now

-----------------------------------------------------------------------------
(* C12: the exceptions that leave call().                                  *)

\* C12 as claimed: a call() ends with a result, with KeyError for an
\* unknown profile or with AllProvidersExhausted, and with nothing else,
\* whatever the state file holds and whether or not it can be written.
C12_AsClaimed ==
    outcome.type \in {"none", "pending", "result", "KeyError", "exhausted"}

\* the state file cannot be written; the candidate failed with a rate-limit
\* error, strike() put the record in the mapping, and the OSError of _save
\* left call()
C12_Witness ==
    /\ outcome.type = "OSError"
    /\ pc = "idle"
    /\ ~store.writable
    /\ invoked # <<>>
    /\ Last(invoked).error # None
    /\ IsRateLimitError(Last(invoked).error[1])[1]
    /\ CurrentProfile[Last(invoked).idx] \in DOMAIN strikes["router"]

-----------------------------------------------------------------------------
(* C13: strike() when the state file cannot be written.                    *)

\* C13 as claimed: a strike() on a tracker whose state file cannot be
\* written raises nothing, and the mapping holds the new record, so that
\* is_available answers false until the record renews.
C13_AsClaimed ==
    (ret.op = "strike" /\ SaveRaises(stateFile[ret.tracker], store)) =>
        LET m == strikes[ret.tracker]
            p == ret.provider
        IN  /\ ret.raised = NoError
            /\ p \in DOMAIN m
            /\ m[p].renews_at = IsoFormat(RenewsAt(ret.at, ret.policy, ret.retry))
            /\ now < FromIsoFormat(m[p].renews_at) =>
                  ~IsAvailable(stateFile[ret.tracker], m, store, p, now).avail

\* strike("a") on a read-only state file raised OSError; the mapping holds
\* a's new record and the file does not
C13_Witness ==
    /\ ret.op = "strike"
    /\ ret.provider = "a"
    /\ ret.raised = "OSError"
    /\ "a" \in DOMAIN strikes[ret.tracker]
    /\ strikes[ret.tracker]["a"].reason = "manual"
    /\ ~store.exists

-----------------------------------------------------------------------------
(* C14: constructing a tracker on a state file that cannot be loaded.      *)

\* C14 as claimed: StrikeTracker(state_file) raises nothing, and on a file
\* that is missing, unreadable, no JSON, or JSON that is no object or has
\* no "strikes" field the tracker starts with the empty mapping.
C14_AsClaimed ==
    ret.op = "construct" =>
        /\ ret.raised = NoError
        /\ (\/ ~store.exists
            \/ ~store.readable
            \/ store.doc.kind # "object"
            \/ ~store.doc.hasStrikes) => strikes[ret.tracker] = EmptyMap

\* the constructor raised AttributeError on a state file holding a list
C14_Witness ==
    /\ ret.op = "construct"
    /\ ret.raised = "AttributeError"
    /\ store.exists /\ store.readable
    /\ store.doc.kind = "list"

-----------------------------------------------------------------------------
(* C15: strike records whose renews-at is missing, empty or no date.       *)

\* the record has no "renews_at", an empty one, or one that is no date
BadRenewal(rec) ==
    \/ "renews_at" \notin DOMAIN rec
    \/ rec.renews_at = <<>>
    \/ ~IsIsoFormat(rec.renews_at)

\* C15 as claimed: is_available answers true for a provider whose record
\* has a bad renews-at, and clear_expired removes every such record;
\* neither raises.
C15_AsClaimed ==
    [][ /\ TrackerStep("is_available") =>
             LET m == strikes[ret'.tracker]
                 p == ret'.provider
             IN  (p \in DOMAIN m /\ BadRenewal(m[p])) =>
                     ret'.raised = NoError /\ ret'.avail
        /\ TrackerStep("clear_expired") =>
             LET m == strikes[ret'.tracker]
             IN  \A p \in DOMAIN m :
                    BadRenewal(m[p]) =>
                        /\ ret'.raised = NoError
                        /\ p \in ret'.cleared
                        /\ p \notin DOMAIN strikes'[ret'.tracker]
      ]_vars

\* is_available answered false for a provider whose record, loaded from the
\* state file, has no renews-at, two clock steps after the start
C15_Witness ==
    /\ ret.op = "is_available"
    /\ ret.raised = NoError
    /\ ~ret.avail
    /\ ticks = MaxTicks
    /\ ret.provider \in DOMAIN strikes[ret.tracker]
    /\ "renews_at" \notin DOMAIN strikes[ret.tracker][ret.provider]

-----------------------------------------------------------------------------
(* C16: list_available.                                                    *)

\* C16: list_available(profile) on a known profile removes every strike
\* that has renewed, of providers of the profile or not, and leaves the
\* others; it returns one entry per profile entry naming a known provider,
\* in profile order, whose has_key tells whether the provider has a key and
\* whose is_available is true exactly when it has a key and no strike
\* renewing after the current time; and it invokes no adapter and makes no
\* client.
C16_ListAvailable ==
    [][ (TrackerStep("list_available") /\ ret'.profile \in ProfileNames) =>
          LET prof == Profiles(ret'.profile)
              known == KnownEntries(prof)
              m == strikes["router"]
              listing == ret'.listing
          IN  /\ ret'.raised = NoError
              /\ Len(listing) = Len(known)
              /\ \A k \in 1..Len(known) :
                    LET pid == prof[known[k]]
                    IN  /\ listing[k].id = pid
                        /\ listing[k].has_key = (pid \in env')
                        /\ listing[k].is_available =
                              (pid \in env' /\ ~ActiveStrike(m, pid, now))
              /\ DOMAIN strikes'["router"] =
                    {p \in DOMAIN m : ActiveStrike(m, p, now)}
              /\ \A p \in DOMAIN strikes'["router"] : strikes'["router"][p] = m[p]
              /\ OthersKeep("router")
              /\ UNCHANGED <<pc, clients, invoked, attempts, outcome>>
      ]_vars

\* list_available("ba") with b's key alone, after a's strike renewed and
\* before b's does: b has a key and is struck, a has no strike and no key,
\* neither is available, and the sweep took a's record
C16_Witness ==
    /\ ret.op = "list_available"
    /\ ret.profile = "ba"
    /\ ret.at = now
    /\ Len(ret.listing) = 2
    /\ ret.listing[1].id = "b"
    /\ ret.listing[1].has_key /\ ~ret.listing[1].is_available
    /\ ret.listing[2].id = "a"
    /\ ~ret.listing[2].has_key /\ ~ret.listing[2].is_available
    /\ "a" \notin DOMAIN strikes["router"]
    /\ "b" \in DOMAIN strikes["router"]

-----------------------------------------------------------------------------
(* C17: what a successful call() returns.                                  *)

\* C17: the result of a call() is the RouterResult of the provider whose
\* invocation returned and of the response it returned: the response's
\* text and usage, the provider's identifier, name and default model. It
\* is a function of these two alone, so it is the same however many
\* candidates were skipped, struck or had failed before, and it carries no
\* record of an attempt, failed or other.
C17_ResultOfSucceeding ==
    outcome.type = "result" =>
        /\ invoked # <<>>
        /\ Last(invoked).error = None
        /\ Last(invoked).response # None
        /\ LET pid == CurrentProfile[Last(invoked).idx]
               resp == Last(invoked).response[1]
           IN  /\ outcome = RouterResult(pid, resp)
               /\ outcome.provider_id = pid
               /\ outcome.provider_name = ProviderName(pid)
               /\ outcome.model = DefaultModel(pid)
               /\ outcome.text = resp.text
               /\ outcome.attempts = <<>>

\* a call on <<"a", "x", "b">> returned b's result with the response's
\* text after a, invoked first, had failed with a rate-limit error
C17_Witness ==
    /\ outcome.type = "result"
    /\ profile = "ab"
    /\ outcome.provider_id = "b"
    /\ outcome.text = "hello"
    /\ Len(invoked) = 2
    /\ Len(attempts) = 1
    /\ attempts[1].status = "failed"
    /\ attempts[1].rate_limited = Some(TRUE)

-----------------------------------------------------------------------------
(* C18: two trackers on one state file.                                    *)

\* C18 as claimed: when one tracker strikes a provider and then the other
\* tracker, constructed before that strike, strikes another provider while
\* the first strike has not renewed, the state file holds both records: a
\* tracker constructed on it then finds neither provider available.
C18_AsClaimed ==
    [][ (/\ TrackerStep("strike")
         /\ ret.op = "strike"
         /\ ret'.tracker # ret.tracker
         /\ ret'.provider # ret.provider
         /\ now < RenewsAt(ret.at, ret.policy, ret.retry)) =>
          LET fresh == Load(TRUE, store').strikes
          IN  \A p \in {ret.provider, ret'.provider} :
                 /\ p \in DOMAIN fresh
                 /\ ~IsAvailable(TRUE, fresh, store', p, now).avail
      ]_vars

\* the router's tracker struck a, then the other tracker struck b: each
\* holds its own record alone, and the file holds b's alone
C18_Witness ==
    /\ ret.op = "strike"
    /\ ret.tracker = "other"
    /\ DOMAIN strikes["router"] = {"a"}
    /\ DOMAIN strikes["other"] = {"b"}
    /\ store.exists
    /\ DOMAIN store.doc.strikes = {"b"}
    /\ now < FromIsoFormat(strikes["router"]["a"].renews_at)

-----------------------------------------------------------------------------
(* C19: which errors are rate-limit errors.                                *)

\* C19: _is_rate_limit_error answers rate-limit exactly for an exception
\* whose lower-cased message contains "429", or both "rate" and "limit", or
\* "quota", or "insufficient", whatever its retry-after header; for every
\* other exception it answers not rate-limit, with no retry delay.
C19_RateLimitIff ==
    ret.op = "classify" =>
        LET msg == ret.error.name
            lowered == [k \in 1..Len(msg) |-> Lower(msg[k])]
            Has(needle) == \E k \in 1..Len(msg) : needle \in Substrings(lowered[k])
        IN  /\ ret.rate_limited <=>
                  \/ Has("429")
                  \/ Has("rate") /\ Has("limit")
                  \/ Has("quota")
                  \/ Has("insufficient")
            /\ ~ret.rate_limited => ret.retry = None

\* "Rate unlimited" is a rate-limit error; so the test is of substrings and
\* ignores case
C19_Witness ==
    /\ ret.op = "classify"
    /\ ret.error.name = <<"Rate", "unlimited">>
    /\ ret.rate_limited

-----------------------------------------------------------------------------
(* C20: get_status.                                                        *)

\* C20: get_status() answers after the expiry sweep: the snapshot holds
\* exactly the records whose renews-at is after the current time, each as
\* the tracker held it, the active count is the number of records of the
\* snapshot, and the tracker is left holding the snapshot's records.
C20_StatusAfterSweep ==
    [][ TrackerStep("get_status") =>
          LET t == ret'.tracker
              m == strikes[t]
              snap == ret'.snapshot
          IN  /\ ret'.raised = NoError
              /\ ret'.active = Cardinality(DOMAIN snap)
              /\ DOMAIN snap = {p \in DOMAIN m : FromIsoFormat(m[p].renews_at) > now}
              /\ \A p \in DOMAIN snap : snap[p] = m[p]
              /\ strikes'[t] = snap
              /\ OthersKeep(t)
      ]_vars

\* get_status() in the very second a's strike renews answered one active
\* strike, b's, which renews at midnight
C20_Witness ==
    /\ ret.op = "get_status"
    /\ ret.at = now
    /\ ret.active = 1
    /\ DOMAIN ret.snapshot = {"b"}
    /\ now < FromIsoFormat(ret.snapshot["b"].renews_at)
    /\ \E u \in Trackers :
          "a" \in DOMAIN strikes[u] /\ FromIsoFormat(strikes[u]["a"].renews_at) = now

-----------------------------------------------------------------------------
(* C21: the retry delay of a rate-limit error.                             *)

\* C21 as claimed: for an exception classified as rate-limit, by whichever
\* rule, the retry delay is the integer after "retry after" in the message
\* when the message has one; when it has none, the integer of the
\* retry-after header; and None when that is missing or no integer.
C21_AsClaimed ==
    (ret.op = "classify" /\ ret.rate_limited) =>
        LET inMessage == SearchRetryAfter(ret.error.name)
            hdr == ret.error.header
        IN  ret.retry = IF inMessage # None THEN inMessage
                        ELSE IF hdr.present /\ hdr.parses THEN Some(hdr.value)
                        ELSE None

\* "429 Retry-After: 30" with the header retry-after: 10 gives the delay 10
C21_Witness ==
    /\ ret.op = "classify"
    /\ ret.error.name = <<"429", "Retry-After: 30">>
    /\ ret.error.header = [present |-> TRUE, parses |-> TRUE, value |-> 10]
    /\ ret.rate_limited
    /\ ret.retry = Some(10)

-----------------------------------------------------------------------------
(* C22: which retry delays strike() uses.                                  *)

\* C22 as claimed: strike() writes renews-at = now + the retry delay when
\* the delay is not None and positive, and the renewal of the policy (next
\* midnight, first of next month, now + 60 s) when it is None, zero or
\* negative; so the record's renews-at is after its struck-at.
C22_AsClaimed ==
    ret.op = "strike" =>
        LET rec == strikes[ret.tracker][ret.provider]
            used == ret.retry # None /\ ret.retry[1] > 0
        IN  /\ rec.struck_at = IsoFormat(ret.at)
            /\ rec.renews_at =
                  IsoFormat(IF used THEN ret.at + ret.retry[1]
                            ELSE RenewsAt(ret.at, ret.policy, None))
            /\ FromIsoFormat(rec.renews_at) > FromIsoFormat(rec.struck_at)

\* a strike with the retry delay -5 renews five seconds before it was made
C22_Witness ==
    /\ ret.op = "strike"
    /\ ret.retry = Some(-5)
    /\ ret.raised = NoError
    /\ FromIsoFormat(strikes[ret.tracker][ret.provider].renews_at) = ret.at - 5
    /\ strikes[ret.tracker][ret.provider].struck_at = IsoFormat(ret.at)

-----------------------------------------------------------------------------
(* C23: a provider that the profile lists more than once.                  *)

\* C23 as claimed: within one call() no provider is handed to the adapter
\* twice and none gets two attempt records, whatever the profile lists.
C23_AsClaimed ==
    /\ \A j, k \in 1..Len(invoked) :
          j # k => CurrentProfile[invoked[j].idx] # CurrentProfile[invoked[k].idx]
    /\ \A j, k \in 1..Len(attempts) :
          j # k => attempts[j].provider # attempts[k].provider

\* a call on <<"a", "a">>: a failed with "Connection timeout" and was
\* invoked again for the second entry
C23_Witness ==
    /\ profile = "aa"
    /\ pc = "invoking"
    /\ Len(invoked) = 2
    /\ invoked[1].idx = 1 /\ invoked[2].idx = 2
    /\ invoked[1].error = Some(ErrTimeout)
    /\ attempts = <<FailedAttempt("a", ErrTimeout)>>

-----------------------------------------------------------------------------
(* C24: the state file mirrors the mapping.                                *)

\* C24: with a single tracker on a state file that can be written, at
\* every moment before, between and after its strike, is_available,
\* clear_expired and get_status operations a tracker constructed on the
\* file would hold exactly the records the tracker holds; once the file
\* has been written it holds the mapping itself.
C24_StoreMirrorsMemory ==
    /\ Load(TRUE, store).raised = NoError
    /\ Load(TRUE, store).strikes = strikes["router"]
    /\ ret.raised = NoError
    /\ (ops > 0 /\ store.exists) => store.doc = ObjectDoc(strikes["router"])

\* clear_expired() removed a's record, which had renewed, from the mapping
\* and from the file, and both still hold b's
C24_Witness ==
    /\ ret.op = "clear_expired"
    /\ ret.cleared = {"a"}
    /\ DOMAIN strikes["router"] = {"b"}
    /\ store.exists
    /\ store.doc.strikes = strikes["router"]

-----------------------------------------------------------------------------
(* C25: call() terminates.                                                 *)

\* the adapter invocations of the call that have not returned
InFlight == {k \in 1..Len(invoked) :
                invoked[k].error = None /\ invoked[k].response = None}

\* C25: a call() on a known profile hands each profile entry to the
\* adapter at most once, going forward in the profile, so at most as many
\* times as the profile has entries naming a provider; at most one
\* invocation, the last, is in flight, and one is exactly while the call
\* runs; a call that is over ended with a result or with
\* AllProvidersExhausted; and, every invocation returning or raising, a
\* call that runs is over at some later time.
C25_CallTerminates ==
    /\ [](/\ Len(invoked) <= Len(KnownEntries(CurrentProfile))
          /\ \A j, k \in 1..Len(invoked) : j < k => invoked[j].idx < invoked[k].idx
          /\ Cardinality(InFlight) <= 1
          /\ InFlight \subseteq {Len(invoked)}
          /\ (pc = "invoking") <=> (InFlight # {})
          /\ CallEnded => outcome.type \in {"result", "exhausted"}
          /\ outcome.type = "result" => Last(invoked).response # None
          /\ outcome.type = "exhausted" => \A k \in 1..Len(invoked) :
                 invoked[k].error # None)
    /\ (pc = "invoking") ~> (CallEnded /\ outcome.type \in {"result", "exhausted"})

\* a call on <<"a", "x", "b">> ended in AllProvidersExhausted after two
\* invocations, one per entry naming a provider, both failed
C25_Witness ==
    /\ CallEnded
    /\ profile = "ab"
    /\ outcome.type = "exhausted"
    /\ Len(invoked) = 2
    /\ invoked[1].idx = 1 /\ invoked[2].idx = 3
    /\ InFlight = {}

-----------------------------------------------------------------------------
(* C26: list_available with an unknown profile name.                       *)

\* C26: list_available() with a name that is no profile returns the empty
\* list and raises nothing; the expiry sweep does not run, so the
\* tracker's mapping and the state file stay as they were, strikes that
\* have renewed included, and nothing of the router changes.
C26_ListUnknownProfile ==
    [][ (TrackerStep("list_available") /\ ret'.profile \notin ProfileNames) =>
          /\ ret'.listing = <<>>
          /\ ret'.raised = NoError
          /\ strikes' = strikes
          /\ store' = store
          /\ UNCHANGED <<pc, clients, invoked, attempts, outcome>>
      ]_vars

\* list_available("nope") returned the empty list in the second a's strike
\* renewed, and the tracker and the file still hold that strike
C26_Witness ==
    /\ ret.op = "list_available"
    /\ ret.profile = "nope"
    /\ ret.listing = <<>>
    /\ ret.at = now
    /\ "a" \in DOMAIN strikes["router"]
    /\ FromIsoFormat(strikes["router"]["a"].renews_at) <= now
    /\ stateFile["router"]
    /\ "a" \in DOMAIN store.doc.strikes

=============================================================================
